---- MODULE Spec2Model ----
(***************************************************************************)
(* A model of the connect-go Prometheus interceptor (src/interceptor.go).  *)
(*                                                                         *)
(* The file holds two variants of the same package: one whose Interceptor  *)
(* has request counters and duration histograms (lines 1-138) and one      *)
(* with the counters only (lines 140-248).  The variable trackDuration     *)
(* says which variant was built; it never changes.                         *)
(*                                                                         *)
(* Go strings are sequences of one-character strings, so that             *)
(* strings.Split is computed, not assumed.  The label values "code" and    *)
(* "type" are TLA+ strings; "method" and "service" are such sequences.     *)
(*                                                                         *)
(* Every goroutine of the host runs the function WrapUnary returned.  One  *)
(* call is several steps, because other goroutines run between its         *)
(* accesses to the shared instruments: the entry (Split and the length     *)
(* test), the return of the delegate, CounterVec...Inc(),                  *)
(* HistogramVec...Observe(), and the return.                               *)
(***************************************************************************)
EXTENDS Integers, Sequences, FiniteSets, TLC

VARIABLES
    trackDuration,   \* TRUE: the variant with the duration histograms
    clientRequests,  \* CounterVec: label values -> value of the child counter
    clientDuration,  \* HistogramVec: label values -> number of observations
    serverRequests,
    serverDuration,
    pc,              \* goroutine -> where it is in the function WrapUnary returned
    ctx,             \* goroutine -> the ctx argument of the call in progress
    req,             \* goroutine -> the req argument of the call in progress
    service,         \* goroutine -> local variable service
    method,          \* goroutine -> local variable method
    resp,            \* goroutine -> local variable resp
    err,             \* goroutine -> local variable err
    result,          \* goroutine -> what the call returned to its caller
    nextCalls,       \* goroutine -> the arguments of each invocation of next by this call
    completed,       \* [spec, err] -> number of returned calls that reached the delegate
    started,         \* number of unary calls made so far
    stream           \* the last streaming wrap: what was supplied, what came back, what ran

vars == <<trackDuration, clientRequests, clientDuration, serverRequests,
          serverDuration, pc, ctx, req, service, method, resp, err, result,
          nextCalls, completed, started, stream>>

instruments == <<clientRequests, clientDuration, serverRequests, serverDuration>>

locals == <<ctx, req, service, method, resp, err, result, nextCalls>>

----------------------------------------------------------------------------
(* Bounds of the model. *)

NumGoroutines == 2    \* goroutines calling the interceptor concurrently
MaxCalls == 2         \* unary calls made in one behaviour of Spec
MaxLen == 5           \* length of a procedure identifier in SpecUnary
MaxCode == 17         \* largest connect.Code a delegate's error carries in SpecUnary
MaxStreamType == 4    \* largest connect.StreamType of a descriptor in SpecUnary

Goroutines == 1..NumGoroutines

----------------------------------------------------------------------------
(* Values of the connect package the interceptor reads. *)

StreamTypeUnary == 0
StreamTypeClient == 1
StreamTypeServer == 2
StreamTypeBidi == 3

CodeUnknown == 2
CodeInternal == 13

\* connect.Code(1) .. connect.Code(16), as Code.String() names them.
CodeNames ==
    << "canceled", "unknown", "invalid_argument", "deadline_exceeded",
       "not_found", "already_exists", "permission_denied",
       "resource_exhausted", "failed_precondition", "aborted",
       "out_of_range", "unimplemented", "internal", "unavailable",
       "data_loss", "unauthenticated" >>

\* An error value.  kind "connect" is a *connect.Error, "wrapped" an error
\* that wraps one (errors.As finds it), "plain" any other non-nil error.
nil == [kind |-> "nil", code |-> 0]

PlainError == [kind |-> "plain", code |-> 0]

NewError(c) == [kind |-> "connect", code |-> c]

WrappedError(c) == [kind |-> "wrapped", code |-> c]

\* A pair (response, error), as a unary function returns it.
Result(r, e) == [resp |-> r, err |-> e]

\* connect.CodeOf: the code of the *connect.Error in err's chain, else CodeUnknown.
CodeOf(e) == IF e.kind \in {"connect", "wrapped"} THEN e.code ELSE CodeUnknown

\* connect.Code.String: the name of a code of the enumeration, else "code_<n>".
CodeString(c) ==
    IF c \in 1..Len(CodeNames) THEN CodeNames[c] ELSE "code_" \o ToString(c)

----------------------------------------------------------------------------
(* The pure functions of the package. *)

\* strings.Split(s, "/")
RECURSIVE Split(_)
Split(s) ==
    IF \A i \in 1..Len(s) : s[i] # "/"
    THEN <<s>>
    ELSE LET i == CHOOSE k \in 1..Len(s) :
                      s[k] = "/" /\ \A j \in 1..(k - 1) : s[j] # "/"
         IN  <<SubSeq(s, 1, i - 1)>> \o Split(SubSeq(s, i + 1, Len(s)))

\* return nil, connect.NewError(connect.CodeInternal, ...)
MalformedError == Result("nil", NewError(CodeInternal))

\* Fault: the test lets identifiers with more than three segments through.
Malformed_TooFew(procedure) == Len(procedure) < 3

\* Fault: the test also rejects a non-empty leading segment and an empty
\* service or method.
Malformed_Strict(procedure) ==
    \/ Len(procedure) # 3
    \/ procedure[1] # <<>>
    \/ procedure[2] = <<>>
    \/ procedure[3] = <<>>

\* The test of WrapUnary on the split procedure: len(procedure) != 3.
Malformed(procedure) == Len(procedure) # 3

\* Fault: the nil test is missing, so a success is classified by CodeOf.
code_NoNilCheck(e) == CodeString(CodeOf(e))

\* code returns the code based on an error; if error is nil the code is ok.
code(e) == IF e = nil THEN "ok" ELSE CodeString(CodeOf(e))

\* Fault: the client and server cases are exchanged.
streamType_Swapped(t) ==
    CASE t = StreamTypeUnary -> "unary"
      [] t = StreamTypeClient -> "server_stream"
      [] t = StreamTypeServer -> "client_stream"
      [] t = StreamTypeBidi -> "bidi_stream"
      [] OTHER -> ""

\* streamType returns a string for the connect.StreamType.
streamType(t) ==
    CASE t = StreamTypeUnary -> "unary"
      [] t = StreamTypeClient -> "client_stream"
      [] t = StreamTypeServer -> "server_stream"
      [] t = StreamTypeBidi -> "bidi_stream"
      [] OTHER -> ""

\* Fault: method and service are passed in the wrong order.
LabelValues_Swapped(c, m, s, t) ==
    [code |-> c, method |-> s, service |-> m, type |-> t]

\* The arguments of WithLabelValues, in the order of the label names
\* "code", "method", "service", "type".
LabelValues(c, m, s, t) == [code |-> c, method |-> m, service |-> s, type |-> t]

\* The label values WrapUnary passes for goroutine g's call.
CallLabels(g) ==
    LabelValues(code(err[g]), method[g], service[g],
                streamType(req[g].spec.StreamType))

\* Fault: an increment of an existing child is lost.
Inc_Lost(vec, lvs) == IF lvs \in DOMAIN vec THEN vec ELSE vec @@ (lvs :> 1)

\* CounterVec.WithLabelValues(lvs).Inc(): the child is created at 0 when absent.
Inc(vec, lvs) ==
    IF lvs \in DOMAIN vec THEN [vec EXCEPT ![lvs] = @ + 1] ELSE vec @@ (lvs :> 1)

\* HistogramVec.WithLabelValues(lvs).Observe(d): one more observation.  The
\* observed value d (time.Since(start).Seconds()) is not kept: a histogram
\* child is its number of observations.
Observe(vec, lvs) ==
    IF lvs \in DOMAIN vec THEN [vec EXCEPT ![lvs] = @ + 1] ELSE vec @@ (lvs :> 1)

\* Fault: the response is dropped when the delegate failed.
ReturnValues_NilOnError(r, e) == Result(IF e = nil THEN r ELSE "nil", e)

\* The return statement after recording: return resp, err.
ReturnValues(r, e) == Result(r, e)

----------------------------------------------------------------------------
(* The inputs. *)

Spec3(p, c, t) == [Procedure |-> p, IsClient |-> c, StreamType |-> t]

Request(sp, payload) == [spec |-> sp, payload |-> payload]

NoRequest == Request(Spec3(<<>>, FALSE, StreamTypeUnary), "")

\* The calls the host makes in Spec.  The first two differ in the direction
\* only; the third swaps the segments, carries another payload and has a
\* stream type outside the four known ones; the last two are malformed (two
\* segments, four segments).
Requests ==
    { Request(Spec3(<<"/", "s", "/", "m">>, TRUE, StreamTypeUnary), "p1"),
      Request(Spec3(<<"/", "s", "/", "m">>, FALSE, StreamTypeUnary), "p1"),
      Request(Spec3(<<"/", "m", "/", "s">>, FALSE, MaxStreamType), "p2"),
      Request(Spec3(<<"/", "s">>, FALSE, StreamTypeUnary), "p1"),
      Request(Spec3(<<"/", "s", "/", "m", "/">>, TRUE, StreamTypeUnary), "p2") }

Contexts == {"ctx"}

\* What the delegate returns in Spec: a response, a canceled failure, or a
\* failure whose code is outside the enumeration, with a response beside it.
Outcomes ==
    { Result("resp", nil), Result("nil", NewError(1)),
      Result("resp", NewError(MaxCode)) }

\* The inputs of SpecUnary: every procedure identifier over the alphabet up
\* to MaxLen characters, every direction, every stream type up to
\* MaxStreamType, and every error up to code MaxCode.
Alphabet == {"/", "s", "m"}

AllProcedures == UNION { [1..n -> Alphabet] : n \in 0..MaxLen }

AllRequests ==
    { Request(Spec3(p, c, t), "p1") :
        p \in AllProcedures, c \in BOOLEAN, t \in 0..MaxStreamType }

AllErrors ==
    {nil, PlainError} \cup { NewError(c) : c \in 0..MaxCode }
        \cup { WrappedError(c) : c \in 0..MaxCode }

AllOutcomes ==
    { Result(IF e = nil THEN "resp" ELSE "nil", e) : e \in AllErrors }

StreamingClientFunc == "clientFunc"

StreamingHandlerFunc == "handlerFunc"

NoStream == [op |-> "none", handle |-> "", wrapped |-> "", called |-> ""]

----------------------------------------------------------------------------
(* NewInterceptor: the instruments are registered and empty. *)

Init ==
    /\ trackDuration \in BOOLEAN
    /\ clientRequests = <<>>
    /\ clientDuration = <<>>
    /\ serverRequests = <<>>
    /\ serverDuration = <<>>
    /\ pc = [g \in Goroutines |-> "idle"]
    /\ ctx = [g \in Goroutines |-> ""]
    /\ req = [g \in Goroutines |-> NoRequest]
    /\ service = [g \in Goroutines |-> <<>>]
    /\ method = [g \in Goroutines |-> <<>>]
    /\ resp = [g \in Goroutines |-> "nil"]
    /\ err = [g \in Goroutines |-> nil]
    /\ result = [g \in Goroutines |-> Result("nil", nil)]
    /\ nextCalls = [g \in Goroutines |-> <<>>]
    /\ completed = <<>>
    /\ started = 0
    /\ stream = NoStream

----------------------------------------------------------------------------
(* The function WrapUnary returns, run by goroutine g. *)

\* Entry with (c, r): split the procedure; return the internal error when it
\* is malformed, else set service and method and call next.
UnaryEnter(g, c, r) ==
    /\ pc[g] = "idle"
    /\ ctx' = [ctx EXCEPT ![g] = c]
    /\ req' = [req EXCEPT ![g] = r]
    /\ started' = started + 1
    /\ LET procedure == Split(r.spec.Procedure)
       IN  IF Malformed(procedure)
           THEN /\ result' = [result EXCEPT
                                ![g] = MalformedError]
                /\ pc' = [pc EXCEPT ![g] = "returned"]
                /\ UNCHANGED <<service, method>>
           ELSE /\ service' = [service EXCEPT ![g] = procedure[2]]
                /\ method' = [method EXCEPT ![g] = procedure[3]]
                /\ pc' = [pc EXCEPT ![g] = "next"]
                /\ UNCHANGED result
    /\ UNCHANGED <<trackDuration, instruments, resp, err, nextCalls, completed,
                   stream>>

\* resp, err := next(ctx, req): the delegate, called with the call's own
\* arguments, returns out.
UnaryNext(g, out) ==
    /\ pc[g] = "next"
    /\ nextCalls' = [nextCalls EXCEPT
                       ![g] = Append(@, [ctx |-> ctx[g], req |-> req[g],
                                        out |-> out])]
    /\ resp' = [resp EXCEPT ![g] = out.resp]
    /\ err' = [err EXCEPT ![g] = out.err]
    /\ pc' = [pc EXCEPT ![g] = "requests"]
    /\ UNCHANGED <<trackDuration, instruments, ctx, req, service, method,
                   result, completed, started, stream>>

\* Fault: the direction is not looked at; the client counter counts every call.
UnaryRequests_ClientOnly(g) ==
    /\ pc[g] = "requests"
    /\ clientRequests' = Inc(clientRequests, CallLabels(g))
    /\ pc' = [pc EXCEPT ![g] = IF trackDuration THEN "duration" ELSE "return"]
    /\ UNCHANGED <<trackDuration, serverRequests, clientDuration,
                   serverDuration, locals, completed, started, stream>>

\* i.clientRequests / i.serverRequests .WithLabelValues(...).Inc()
UnaryRequests(g) ==
    /\ pc[g] = "requests"
    /\ IF req[g].spec.IsClient
       THEN /\ clientRequests' = Inc(clientRequests, CallLabels(g))
            /\ UNCHANGED serverRequests
       ELSE /\ serverRequests' = Inc(serverRequests, CallLabels(g))
            /\ UNCHANGED clientRequests
    /\ pc' = [pc EXCEPT ![g] = IF trackDuration THEN "duration" ELSE "return"]
    /\ UNCHANGED <<trackDuration, clientDuration, serverDuration, locals,
                   completed, started, stream>>

\* Fault: the server branch observes on the client histogram.
UnaryDuration_ClientOnly(g) ==
    /\ pc[g] = "duration"
    /\ clientDuration' = Observe(clientDuration, CallLabels(g))
    /\ pc' = [pc EXCEPT ![g] = "return"]
    /\ UNCHANGED <<trackDuration, clientRequests, serverRequests,
                   serverDuration, locals, completed, started, stream>>

\* i.clientDuration / i.serverDuration .WithLabelValues(...).Observe(...)
UnaryDuration(g) ==
    /\ pc[g] = "duration"
    /\ IF req[g].spec.IsClient
       THEN /\ clientDuration' = Observe(clientDuration, CallLabels(g))
            /\ UNCHANGED serverDuration
       ELSE /\ serverDuration' = Observe(serverDuration, CallLabels(g))
            /\ UNCHANGED clientDuration
    /\ pc' = [pc EXCEPT ![g] = "return"]
    /\ UNCHANGED <<trackDuration, clientRequests, serverRequests, locals,
                   completed, started, stream>>

\* return resp, err
UnaryReturn(g) ==
    /\ pc[g] = "return"
    /\ result' = [result EXCEPT ![g] = ReturnValues(resp[g], err[g])]
    /\ LET call == [spec |-> req[g].spec, err |-> err[g]]
       IN  completed' = IF call \in DOMAIN completed
                        THEN [completed EXCEPT ![call] = @ + 1]
                        ELSE completed @@ (call :> 1)
    /\ pc' = [pc EXCEPT ![g] = "returned"]
    /\ UNCHANGED <<trackDuration, instruments, ctx, req, service, method, resp,
                   err, nextCalls, started, stream>>

\* The caller has the result; the call's frame is gone.
UnaryDone(g) ==
    /\ pc[g] = "returned"
    /\ pc' = [pc EXCEPT ![g] = "idle"]
    /\ ctx' = [ctx EXCEPT ![g] = ""]
    /\ req' = [req EXCEPT ![g] = NoRequest]
    /\ service' = [service EXCEPT ![g] = <<>>]
    /\ method' = [method EXCEPT ![g] = <<>>]
    /\ resp' = [resp EXCEPT ![g] = "nil"]
    /\ err' = [err EXCEPT ![g] = nil]
    /\ result' = [result EXCEPT ![g] = Result("nil", nil)]
    /\ nextCalls' = [nextCalls EXCEPT ![g] = <<>>]
    /\ UNCHANGED <<trackDuration, instruments, completed, started, stream>>

----------------------------------------------------------------------------
(* The streaming paths. *)

\* Fault: wrapping a streaming client counts a request.
WrapStreamingClient_Counted(handle) ==
    /\ stream' = [op |-> "client", handle |-> handle, wrapped |-> handle,
                  called |-> ""]
    /\ clientRequests' =
           Inc(clientRequests, LabelValues("ok", <<>>, <<>>, "client_stream"))
    /\ UNCHANGED <<trackDuration, clientDuration, serverRequests,
                   serverDuration, pc, locals, completed, started>>

\* WrapStreamingClient(handle) returns handle.
WrapStreamingClient(handle) ==
    /\ stream' = [op |-> "client", handle |-> handle, wrapped |-> handle,
                  called |-> ""]
    /\ UNCHANGED <<trackDuration, instruments, pc, locals, completed, started>>

\* WrapStreamingHandler(handle) returns handle.
WrapStreamingHandler(handle) ==
    /\ stream' = [op |-> "handler", handle |-> handle, wrapped |-> handle,
                  called |-> ""]
    /\ UNCHANGED <<trackDuration, instruments, pc, locals, completed, started>>

\* The host runs a streaming call through the function the last wrap
\* returned; no code of the interceptor runs.
StreamingCall ==
    /\ stream.op # "none"
    /\ stream' = [stream EXCEPT !.called = stream.wrapped]
    /\ UNCHANGED <<trackDuration, instruments, pc, locals, completed, started>>

----------------------------------------------------------------------------

Next ==
    \/ /\ started < MaxCalls
       /\ \E g \in Goroutines, c \in Contexts, r \in Requests : UnaryEnter(g, c, r)
    \/ \E g \in Goroutines, out \in Outcomes : UnaryNext(g, out)
    \/ \E g \in Goroutines : UnaryRequests(g)
    \/ \E g \in Goroutines : UnaryDuration(g)
    \/ \E g \in Goroutines : UnaryReturn(g)
    \/ \E g \in Goroutines : UnaryDone(g)
    \/ WrapStreamingClient(StreamingClientFunc)
    \/ WrapStreamingHandler(StreamingHandlerFunc)
    \/ StreamingCall

Spec == Init /\ [][Next]_vars

\* One unary call by one goroutine, over the whole input domain.
NextUnary ==
    \/ /\ started < 1
       /\ \E r \in AllRequests : UnaryEnter(1, "ctx", r)
    \/ \E out \in AllOutcomes : UnaryNext(1, out)
    \/ UnaryRequests(1)
    \/ UnaryDuration(1)
    \/ UnaryReturn(1)

SpecUnary == Init /\ [][NextUnary]_vars

----------------------------------------------------------------------------
(* What the properties are stated with.  None of this uses Split, code or  *)
(* streamType: the expected labels are written out again from the         *)
(* procedure identifier, the error and the stream type.                    *)

\* The value of a child of a vector; a child never created counts 0.
Value(vec, lvs) == IF lvs \in DOMAIN vec THEN vec[lvs] ELSE 0

RECURSIVE SumOver(_, _)
SumOver(f, S) ==
    IF S = {} THEN 0
    ELSE LET x == CHOOSE y \in S : TRUE IN f[x] + SumOver(f, S \ {x})

Total(vec) == SumOver(vec, DOMAIN vec)

\* The positions of '/' in a procedure identifier.
Slashes(p) == { i \in 1..Len(p) : p[i] = "/" }

\* Three '/'-delimited segments: exactly two '/'.
ThreeSegments(p) == Cardinality(Slashes(p)) = 2

FirstSlash(p) == CHOOSE i \in Slashes(p) : \A j \in Slashes(p) : i <= j

LastSlash(p) == CHOOSE i \in Slashes(p) : \A j \in Slashes(p) : j <= i

\* The segments of an identifier with exactly two '/'.
LeadingSegment(p) == SubSeq(p, 1, FirstSlash(p) - 1)

ServiceSegment(p) == SubSeq(p, FirstSlash(p) + 1, LastSlash(p) - 1)

MethodSegment(p) == SubSeq(p, LastSlash(p) + 1, Len(p))

\* The names of the sixteen statuses of the enumeration.
CanonicalName ==
    1 :> "canceled" @@ 2 :> "unknown" @@ 3 :> "invalid_argument"
      @@ 4 :> "deadline_exceeded" @@ 5 :> "not_found" @@ 6 :> "already_exists"
      @@ 7 :> "permission_denied" @@ 8 :> "resource_exhausted"
      @@ 9 :> "failed_precondition" @@ 10 :> "aborted" @@ 11 :> "out_of_range"
      @@ 12 :> "unimplemented" @@ 13 :> "internal" @@ 14 :> "unavailable"
      @@ 15 :> "data_loss" @@ 16 :> "unauthenticated"

\* Whether a failure carries a status, and whether it is one of the enumeration.
CarriesStatus(e) == e.kind \in {"connect", "wrapped"}

InEnumeration(e) == CarriesStatus(e) /\ e.code \in DOMAIN CanonicalName

\* The code label of an outcome: "ok", the canonical name, "code_<n>" for a
\* status n outside the enumeration, "unknown" for a failure with no status.
CodeLabel(e) ==
    IF e = nil THEN "ok"
    ELSE IF InEnumeration(e) THEN CanonicalName[e.code]
    ELSE IF CarriesStatus(e) THEN "code_" \o ToString(e.code)
    ELSE "unknown"

\* The type label of a call-shape.
TypeLabel(t) ==
    IF t = 0 THEN "unary"
    ELSE IF t = 1 THEN "client_stream"
    ELSE IF t = 2 THEN "server_stream"
    ELSE IF t = 3 THEN "bidi_stream"
    ELSE ""

\* The label tuple of a call with descriptor sp whose delegate returned e.
LabelsOf(sp, e) ==
    [code |-> CodeLabel(e), method |-> MethodSegment(sp.Procedure),
     service |-> ServiceSegment(sp.Procedure), type |-> TypeLabel(sp.StreamType)]

\* The counter and the histogram of a direction.
Requests_(isClient) == IF isClient THEN clientRequests ELSE serverRequests

Duration_(isClient) == IF isClient THEN clientDuration ELSE serverDuration

AllLabels ==
    DOMAIN clientRequests \cup DOMAIN serverRequests
        \cup DOMAIN clientDuration \cup DOMAIN serverDuration

\* No call is between its entry and its return.
NoCallInProgress == \A g \in Goroutines : pc[g] \in {"idle", "returned"}

\* Goroutine g's call reached the delegate (its procedure was accepted).
Accepted(g) ==
    \/ pc[g] \in {"next", "requests", "duration", "return"}
    \/ pc[g] = "returned" /\ nextCalls[g] # <<>>

----------------------------------------------------------------------------
(* C1: every step that takes a call past its counter update adds exactly   *)
(* one to the counter of the call's own direction under the call's own     *)
(* label tuple; no other step and no other child of a counter changes; no  *)
(* step of a call changes an instrument of the other direction; and a call *)
(* whose delegate returned goes through that update exactly once before it *)
(* returns.                                                                *)

C1_Counting(g) == pc[g] = "requests" /\ pc'[g] # "requests"

C1_Moves ==
    { <<"idle", "next">>, <<"idle", "returned">>, <<"next", "requests">>,
      <<"requests", "duration">>, <<"requests", "return">>,
      <<"duration", "return">>, <<"return", "returned">>,
      <<"returned", "idle">> }

C1_Unchanged(isClient) ==
    IF isClient THEN UNCHANGED <<clientRequests, clientDuration>>
    ELSE UNCHANGED <<serverRequests, serverDuration>>

C1_Step ==
    /\ \A isClient \in BOOLEAN :
         \A lvs \in DOMAIN Requests_(isClient) \cup DOMAIN Requests_(isClient)' :
           Value(Requests_(isClient)', lvs) - Value(Requests_(isClient), lvs)
             = Cardinality({ g \in Goroutines :
                               /\ C1_Counting(g)
                               /\ req[g].spec.IsClient = isClient
                               /\ LabelsOf(req[g].spec, err[g]) = lvs })
    /\ \A g \in Goroutines :
         LET isClient == req[g].spec.IsClient
             lvs == LabelsOf(req[g].spec, err[g])
         IN  /\ C1_Counting(g) =>
                  Value(Requests_(isClient)', lvs)
                    = Value(Requests_(isClient), lvs) + 1
             /\ pc'[g] # pc[g] =>
                  /\ <<pc[g], pc'[g]>> \in C1_Moves
                  /\ pc[g] # "idle" => C1_Unchanged(~isClient)

C1_ExactlyOneIncrement == [][C1_Step]_vars

\* A canceled server call and a successful client call of the same
\* procedure were each counted once, each in its own counter.
C1_Witness ==
    /\ NoCallInProgress
    /\ Value(serverRequests,
             LabelsOf(Spec3(<<"/", "s", "/", "m">>, FALSE, 0), NewError(1))) = 1
    /\ Value(clientRequests,
             LabelsOf(Spec3(<<"/", "s", "/", "m">>, TRUE, 0), nil)) = 1
    /\ Total(serverRequests) = 1
    /\ Total(clientRequests) = 1

----------------------------------------------------------------------------
(* C2: a call with a well-formed procedure invokes the delegate exactly    *)
(* once, with its own context and request, and returns to its caller       *)
(* exactly the response and the error the delegate returned.               *)

C2_Transparent ==
    \A g \in Goroutines :
        /\ Len(nextCalls[g]) <= 1
        /\ pc[g] = "returned" /\ ThreeSegments(req[g].spec.Procedure) =>
             /\ Len(nextCalls[g]) = 1
             /\ nextCalls[g][1].ctx = ctx[g]
             /\ nextCalls[g][1].req = req[g]
             /\ result[g] = nextCalls[g][1].out

\* A call whose delegate returned both a response and a failure has returned.
C2_Witness ==
    \E g \in Goroutines :
        /\ pc[g] = "returned"
        /\ ThreeSegments(req[g].spec.Procedure)
        /\ result[g].resp = "resp"
        /\ result[g].err = NewError(MaxCode)

----------------------------------------------------------------------------
(* C3: a call whose procedure does not split into exactly three segments   *)
(* returns a nil response with an internal error in its first step,        *)
(* whatever calls came before; the delegate is not invoked and no          *)
(* instrument changes.  In every other call the error returned is the      *)
(* delegate's.                                                             *)

C3_Entering(g) == pc[g] = "idle" /\ pc'[g] # "idle"

C3_Step ==
    \A g \in Goroutines :
        /\ C3_Entering(g) /\ ~ThreeSegments(req'[g].spec.Procedure) =>
             /\ pc'[g] = "returned"
             /\ result'[g] = Result("nil", NewError(13))
             /\ nextCalls'[g] = <<>>
             /\ instruments' = instruments
        /\ pc[g] = "returned" /\ ~ThreeSegments(req[g].spec.Procedure) =>
             /\ nextCalls[g] = <<>>
             /\ result[g] = Result("nil", NewError(13))
        /\ pc'[g] = "returned" /\ ThreeSegments(req'[g].spec.Procedure) =>
             /\ nextCalls'[g] # <<>>
             /\ result'[g].err = nextCalls'[g][1].out.err

C3_MalformedProcedure == [][C3_Step]_vars

\* A malformed call has returned after an earlier call was counted.
C3_Witness ==
    \E g \in Goroutines :
        /\ pc[g] = "returned"
        /\ ~ThreeSegments(req[g].spec.Procedure)
        /\ result[g].err = NewError(13)
        /\ Total(clientRequests) + Total(serverRequests) = 1

----------------------------------------------------------------------------
(* C4, as claimed: a procedure is accepted only with an empty leading      *)
(* segment, a non-empty service and a non-empty method; every other        *)
(* identifier fails at once with the internal error and never reaches the  *)
(* delegate.                                                               *)

StrictForm(p) ==
    /\ ThreeSegments(p)
    /\ LeadingSegment(p) = <<>>
    /\ ServiceSegment(p) # <<>>
    /\ MethodSegment(p) # <<>>

Rejected(g) ==
    /\ pc[g] = "returned"
    /\ result[g] = Result("nil", NewError(13))
    /\ nextCalls[g] = <<>>

C4_Original ==
    \A g \in Goroutines :
        pc[g] # "idle" =>
            /\ Accepted(g) => StrictForm(req[g].spec.Procedure)
            /\ ~StrictForm(req[g].spec.Procedure) => Rejected(g)

(* C4, amended: a procedure is accepted exactly when it splits on '/' into *)
(* three segments, that is, when it holds exactly two '/'.  The segments   *)
(* may be empty and the leading one non-empty; the call then reaches the   *)
(* delegate and is counted under the service and method segments as they   *)
(* are.  Every other identifier fails at once with the internal error and  *)
(* never reaches the delegate.                                             *)

Recorded(g) ==
    \/ pc[g] \in {"duration", "return"}
    \/ pc[g] = "returned" /\ nextCalls[g] # <<>>

C4_Amended ==
    \A g \in Goroutines :
        pc[g] # "idle" =>
            /\ Accepted(g) <=> ThreeSegments(req[g].spec.Procedure)
            /\ ~ThreeSegments(req[g].spec.Procedure) => Rejected(g)
            /\ Recorded(g) =>
                 \E lvs \in DOMAIN Requests_(req[g].spec.IsClient) :
                     /\ lvs.service = ServiceSegment(req[g].spec.Procedure)
                     /\ lvs.method = MethodSegment(req[g].spec.Procedure)

\* The identifier "s//" (a non-empty leading segment, an empty service and
\* an empty method) was accepted and counted.
C4_Witness ==
    \E g \in Goroutines :
        /\ pc[g] = "returned"
        /\ req[g].spec.Procedure = <<"s", "/", "/">>
        /\ Len(nextCalls[g]) = 1
        /\ \E lvs \in DOMAIN Requests_(req[g].spec.IsClient) :
               lvs.service = <<>> /\ lvs.method = <<>>

----------------------------------------------------------------------------
(* C5, as claimed: the code label recorded is "ok" without an error, the   *)
(* canonical name for a status of the enumeration, and "unknown" for every *)
(* other failure (no status, or a status outside the enumeration); it is   *)
(* never empty.                                                            *)

DelegateErr(g) == nextCalls[g][1].out.err

ClaimedCodeLabel(e) ==
    IF e = nil THEN "ok"
    ELSE IF InEnumeration(e) THEN CanonicalName[e.code]
    ELSE "unknown"

----------------------------------------------------------------------------
(* C9: the type label recorded is "unary", "client_stream",                *)
(* "server_stream" or "bidi_stream" for the four call-shapes and the empty *)
(* string for any other; a call of an unrecognized shape is counted and    *)
(* returns what the delegate returned.                                     *)

C9_TypeLabel ==
    \A g \in Goroutines :
        Recorded(g) =>
            /\ DOMAIN Requests_(req[g].spec.IsClient) # {}
            /\ \A lvs \in DOMAIN Requests_(req[g].spec.IsClient) :
                   lvs.type = TypeLabel(req[g].spec.StreamType)
            /\ pc[g] = "returned" => result[g] = nextCalls[g][1].out

\* A successful call of an unrecognized shape was counted under type "".
C9_Witness ==
    \E g \in Goroutines :
        /\ pc[g] = "returned"
        /\ Len(nextCalls[g]) = 1
        /\ req[g].spec.StreamType = MaxStreamType
        /\ result[g].err = nil
        /\ \E lvs \in DOMAIN Requests_(req[g].spec.IsClient) :
               lvs.type = "" /\ Requests_(req[g].spec.IsClient)[lvs] = 1

----------------------------------------------------------------------------
(* C6, as claimed: every label tuple in an instrument has its code among   *)
(* the 17 fixed values and its type among the 4 names, and its method and  *)
(* service are the segments of the procedure of a call that was made.      *)

\* The calls that have updated the counters: those that returned, and those
\* between their counter update and their return.
RecordedCalls ==
    DOMAIN completed
        \cup { [spec |-> req[g].spec, err |-> err[g]] :
                 g \in { h \in Goroutines : pc[h] \in {"duration", "return"} } }

FixedCodes == {"ok"} \cup { CanonicalName[c] : c \in DOMAIN CanonicalName }

FixedTypes == {"unary", "client_stream", "server_stream", "bidi_stream"}

OutsideCodes ==
    { "code_" \o ToString(n) : n \in (0..MaxCode) \ DOMAIN CanonicalName }

----------------------------------------------------------------------------
(* C7: whenever every call made has returned, whatever the interleaving of *)
(* the goroutines was, the two counters hold in total as many increments   *)
(* as calls reached the delegate, and each child holds exactly the number  *)
(* of those calls that have its direction and its label tuple.             *)

C7_Expected(isClient, lvs) ==
    SumOver(completed,
            { call \in DOMAIN completed :
                /\ call.spec.IsClient = isClient
                /\ LabelsOf(call.spec, call.err) = lvs })

C7_ConcurrentCalls ==
    NoCallInProgress =>
        /\ Total(clientRequests) + Total(serverRequests) = Total(completed)
        /\ Total(completed) <= started
        /\ \A isClient \in BOOLEAN :
             \A lvs \in DOMAIN Requests_(isClient)
                          \cup { LabelsOf(call.spec, call.err) :
                                   call \in DOMAIN completed } :
                 Value(Requests_(isClient), lvs) = C7_Expected(isClient, lvs)

\* Two goroutines have each returned from a client call, one successful and
\* one canceled, and the client counter holds one increment for each.
C7_Witness ==
    /\ NoCallInProgress
    /\ \E g, h \in Goroutines :
           /\ g # h
           /\ pc[g] = "returned" /\ pc[h] = "returned"
           /\ req[g].spec.IsClient /\ req[h].spec.IsClient
           /\ Len(nextCalls[g]) = 1 /\ Len(nextCalls[h]) = 1
           /\ err[g] = nil /\ err[h] = NewError(1)
    /\ Total(clientRequests) = 2
    /\ Cardinality(DOMAIN clientRequests) = 2

----------------------------------------------------------------------------
(* C8: a streaming wrap returns the function it was given, a streaming     *)
(* call runs that function, and neither changes any of the four            *)
(* instruments.                                                            *)

C8_Step ==
    stream' # stream =>
        /\ instruments' = instruments
        /\ stream'.wrapped = stream'.handle
        /\ stream'.called \in {"", stream'.handle}

C8_StreamingNoop == [][C8_Step]_vars

\* A streaming call ran through the wrapped client function after a unary
\* call had been counted.
C8_Witness ==
    /\ stream.op = "client"
    /\ stream.called = "clientFunc"
    /\ Total(clientRequests) + Total(serverRequests) >= 1

----------------------------------------------------------------------------
(* C10: in the variant with duration histograms, for each direction and    *)
(* label tuple the counter's value is the histogram's number of            *)
(* observations plus the number of calls of that direction and tuple that  *)
(* are between the two updates; so the two are equal whenever no call is   *)
(* in progress, and a malformed call changes neither.                      *)

C10_Between(isClient, lvs) ==
    { g \in Goroutines :
        /\ pc[g] = "duration"
        /\ req[g].spec.IsClient = isClient
        /\ LabelsOf(req[g].spec, err[g]) = lvs }

C10_CounterMatchesHistogram ==
    trackDuration =>
        \A isClient \in BOOLEAN :
            /\ \A lvs \in DOMAIN Requests_(isClient) \cup DOMAIN Duration_(isClient) :
                   Value(Requests_(isClient), lvs)
                     = Value(Duration_(isClient), lvs)
                         + Cardinality(C10_Between(isClient, lvs))
            /\ NoCallInProgress =>
                   Requests_(isClient) = Duration_(isClient)

\* After a failed server call and a malformed call, with no call in
\* progress, the server histogram holds one observation.
C10_Witness ==
    /\ trackDuration
    /\ \A g \in Goroutines : pc[g] = "idle"
    /\ started = 2
    /\ Total(serverDuration) = 1
    /\ \E lvs \in DOMAIN serverDuration : lvs.code = "canceled"
    /\ Total(clientDuration) = 0

====
